---------------------------- MODULE Spec2Model ----------------------------
(***************************************************************************)
(* Dishcovery (recipe_station): two Streamlit scripts that read an         *)
(* uploaded food photo, ask a hosted model for the ingredients, and ask it *)
(* again for recipes.                                                      *)
(*                                                                         *)
(*   src/recipe.py  "recipe" variant: data-URL payload, plain OpenAI client*)
(*   src/recip.py   "recip"  variant: raw bytes, LangChain, agent tool     *)
(*                                                                         *)
(* A Streamlit script is re-executed top to bottom on every UI event; a    *)
(* button reads True only in the run its own click triggered.  Text is a   *)
(* sequence of characters (one-character strings); template literals of    *)
(* the prompts are kept as single elements.                                *)
(***************************************************************************)
EXTENDS Integers, Sequences, FiniteSets, TLC

VARIABLES
    variant,          \* "recipe" (src/recipe.py) or "recip" (src/recip.py)
    stub,             \* TRUE: the hosted model is a deterministic function of its request
    uploaded_file,    \* value of st.file_uploader
    pos,              \* read position of the uploaded stream
    cuisine_type,     \* st.selectbox
    allergies,        \* st.text_input
    taste_pref,       \* st.selectbox
    pc,               \* position of the script run ("idle": waiting for a UI event)
    clicked,          \* the widget whose event triggered the current run
    display,          \* what the button block has rendered in the current run
    events,           \* the steps the current run has performed, in order
    posBefore,        \* stream position when the pipeline was entered
    readFrom,         \* stream position at which the payload read began (-1: no read)
    payload,          \* data_url (recipe) / image bytes (recip) sent to detection
    detRaw,           \* raw text of the detection response
    ingredients_text, \* local of the main block
    compReq,          \* <<prompt>> once the composition request was built
    recipes_text,     \* local of the main block
    recipe_titles,    \* recip.py: options of the favourite radio
    fav,              \* recip.py: value of the favourite radio
    rendered,         \* widgets of the button block left on the page by the last run
    memo,             \* history: one remembered earlier run (input, outcome)
    nz,               \* state of the size-bounded normalizer (third variant)
    pz                \* state of the title parser taken alone

mainVars == <<variant, stub, uploaded_file, pos, cuisine_type, allergies, taste_pref,
              pc, clicked, display, events, posBefore, readFrom, payload, detRaw,
              ingredients_text, compReq, recipes_text, recipe_titles, fav, rendered, memo>>
vars == <<mainVars, nz, pz>>

---------------------------------------------------------------------------
(* Text helpers: Python's str.strip, str.split and slicing.                *)

Min(S) == CHOOSE x \in S : \A y \in S : x <= y
Max(S) == CHOOSE x \in S : \A y \in S : x >= y

IsSpace(c) == c \in {" ", "\n"}

\* str.strip(): drop leading and trailing whitespace
Strip(s) ==
    LET keep == {i \in 1..Len(s) : ~IsSpace(s[i])}
    IN  IF keep = {} THEN <<>> ELSE SubSeq(s, Min(keep), Max(keep))

\* positions at which sep occurs in s
Occurrences(s, sep) ==
    {i \in 1..(Len(s) - Len(sep) + 1) : SubSeq(s, i, i + Len(sep) - 1) = sep}

\* str.split(sep): left to right, non-overlapping
RECURSIVE Split(_, _)
Split(s, sep) ==
    LET occ == Occurrences(s, sep)
    IN  IF occ = {} THEN <<s>>
        ELSE LET i == Min(occ)
             IN  <<SubSeq(s, 1, i - 1)>> \o Split(SubSeq(s, i + Len(sep), Len(s)), sep)

\* [f(x) for x in xs if p(x)] pieces
RECURSIVE SelectNonBlankStripped(_)
SelectNonBlankStripped(parts) ==
    IF parts = <<>> THEN <<>>
    ELSE LET r == Strip(Head(parts))
         IN  (IF r # <<>> THEN <<r>> ELSE <<>>) \o SelectNonBlankStripped(Tail(parts))

\* the slice forgotten
TakeAll(xs, n) == xs

\* xs[:n]
Take(xs, n) == SubSeq(xs, 1, IF Len(xs) < n THEN Len(xs) ELSE n)

\* r.split("\n")[0]
FirstLine(r) == Head(Split(r, <<"\n">>))

Marker == <<"#", "#", "#", " ">>

\* recip.py: recipe_list = [r.strip() for r in recipes_text.split("### ") if r.strip()]
RecipeList(text) == SelectNonBlankStripped(Split(text, Marker))

\* recip.py: recipe_titles = [r.split("\n")[0] for r in recipe_list[:3]]
RecipeTitles(text) ==
    LET l == Take(RecipeList(text), 3)
    IN  [i \in 1..Len(l) |-> FirstLine(l[i])]

---------------------------------------------------------------------------
(* Inputs the page can supply.                                             *)

NoFile  == [name |-> "none",  bytes |-> <<>>,        raster |-> FALSE]
FileA   == [name |-> "a.jpg", bytes |-> <<7, 1, 2>>, raster |-> TRUE]
FileB   == [name |-> "b.png", bytes |-> <<7, 3>>,    raster |-> TRUE]
FileBad == [name |-> "c.jpg", bytes |-> <<0, 5>>,    raster |-> FALSE]
Files   == {FileA, FileB, FileBad}

AnyChoice == <<"A", "n", "y">>
\* options of the two select boxes (first option is the default)
Cuisines == {AnyChoice, <<"I", "t", "a", "l", "i", "a", "n">>}
Tastes   == {AnyChoice, <<"S", "p", "i", "c", "y">>}
\* free text typed into the allergy field (default "")
AllergyTexts == {<<>>, <<"n", "u", "t">>, <<" ", "{", "x", "}", "\n">>}

\* a recipe section as the output convention writes it
Section(n, name, body) == Marker \o <<n, ".", " ">> \o name \o <<"\n">> \o body

Note == <<"*", "m", "k", "t">>

WellFormed3 ==
    Section("1", <<"P", "i", "e">>, <<"-", "x", "\n">>)
    \o Section("2", <<"D", "i", "p">>, <<"-", "y", "\n">>)
    \o Section("3", <<"J", "a", "m">>, <<"-", "z", "\n">>) \o Note \o <<"\n">>

\* a preamble and a sub-heading: more than three pieces
Chatty ==
    <<"H", "i", "\n">> \o Section("1", <<"P", "i", "e">>, <<"#">> \o Marker \o <<"s", "\n">>)
    \o Section("2", <<"D", "i", "p">>, <<>>) \o Section("3", <<"J", "a", "m">>, <<>>)

Unsure == <<"u", "n", "s", "u", "r", "e">>

\* texts the hosted model may answer the detection request with
DetectOutputs == {Unsure, <<" ", "-", " ", "e", "g", "g", "\n">>, <<"\n", " ">>}
\* texts the hosted model may answer the composition request with
ComposeOutputs == {WellFormed3, Chatty, <<" ", "\n">>}

Failure == [ok |-> FALSE, text |-> <<>>]
Answer(t) == [ok |-> TRUE, text |-> t]

\* deterministic stand-ins for the hosted model: a function of the request alone
StubDetect(req) ==
    IF Len(req) % 4 = 0 THEN Failure
    ELSE IF Len(req) % 2 = 0 THEN Answer(Unsure)
    ELSE Answer(<<" ", "-", " ", "e", "g", "g", "\n">>)

StubCompose(prompt) ==
    IF Len(prompt) % 5 = 0 THEN Failure
    ELSE IF Len(prompt) % 2 = 0 THEN Answer(WellFormed3) ELSE Answer(Chatty)

\* what client.chat.completions.create / llm.invoke may return or raise
DetectReplies(req) ==
    IF stub THEN {StubDetect(req)} ELSE {Failure} \cup {Answer(t) : t \in DetectOutputs}

ComposeReplies(prompt) ==
    IF stub THEN {StubCompose(prompt)} ELSE {Failure} \cup {Answer(t) : t \in ComposeOutputs}

---------------------------------------------------------------------------
(* recipe.py: image_to_data_url.                                           *)

\* Image.save(buffer, format="JPEG"): the pixels between the JPEG markers
JpegBytes(pixels) == <<255, 216>> \o pixels \o <<255, 217>>

\* base64.b64encode(...).decode("utf-8"): text made of the buffer's bytes
B64(bytes) == [i \in 1..Len(bytes) |-> ToString(bytes[i])]

\* Image.open(...).convert("RGB"): the pixels of the whole file
Pixels(bytes) == [i \in 1..Len(bytes) |-> bytes[i] % 8]

image_to_data_url(bytes) ==
    <<"data:image/jpeg;base64,">> \o B64(JpegBytes(Pixels(bytes)))

\* image_file.read(): everything from the current position to the end
ReadFrom(file, p) == SubSeq(file.bytes, p + 1, Len(file.bytes))

---------------------------------------------------------------------------
(* The composition prompt.                                                 *)

\* recipe.py: the literal pieces of the f-string of recommend_recipes
RecipeHead         == "\nYou are a professional chef and recipe generator.\n\nDetected ingredients (reference list):\n"
RecipeCuisineLabel == "\n\nUser preferences:\n- Preferred cuisine: "
RecipeAllergyLabel == "\n- Allergies (must avoid): "
RecipeTasteLabel   == "\n- Taste preference: "
RecipeTail         == "\n\nTask: ... Use clear markdown formatting.\n"

\* a composer that tidies the free-text field before embedding it
recommend_recipes_prompt_tidy(ingredients, cuisine, allergy, taste) ==
    <<RecipeHead>> \o ingredients
    \o <<RecipeCuisineLabel>> \o cuisine
    \o <<RecipeAllergyLabel>> \o Strip(allergy)
    \o <<RecipeTasteLabel>> \o taste
    \o <<RecipeTail>>

\* recipe.py: the f-string of recommend_recipes
recommend_recipes_prompt(ingredients, cuisine, allergy, taste) ==
    <<RecipeHead>> \o ingredients
    \o <<RecipeCuisineLabel>> \o cuisine
    \o <<RecipeAllergyLabel>> \o allergy
    \o <<RecipeTasteLabel>> \o taste
    \o <<RecipeTail>>

\* recip.py: the literal pieces of recipe_prompt's user message
RecipHead         == "\nDetected ingredients (reference list):\n"
RecipCuisineLabel == "\n\nUser preferences:\n- Cuisine: "
RecipAllergyLabel == "\n- Allergies: "
RecipTasteLabel   == "\n- Taste: "
RecipTail         == "\n\nGenerate 3 recipes: ... - Steps (3-6 short steps)\n"

\* recip.py: recipe_prompt formatted by recipe_chain
recipe_chain_prompt(ingredients, cuisine, allergy, taste) ==
    <<RecipHead>> \o ingredients
    \o <<RecipCuisineLabel>> \o cuisine
    \o <<RecipAllergyLabel>> \o allergy
    \o <<RecipTasteLabel>> \o taste
    \o <<RecipTail>>

ComposePrompt(ingredients, cuisine, allergy, taste) ==
    IF variant = "recipe"
    THEN recommend_recipes_prompt(ingredients, cuisine, allergy, taste)
    ELSE recipe_chain_prompt(ingredients, cuisine, allergy, taste)

\* recip.py: the tool behind the agent
recommend_similar_recipe(selected_recipe) ==
    <<"If you liked ">> \o selected_recipe
    \o <<", try making a healthier version with less oil.", "\n",
         "Or try a variation using seasonal vegetables or different spices!">>

---------------------------------------------------------------------------
(* What the button block renders.                                          *)

Md(t)            == [kind |-> "markdown", text |-> t]
UploadError      == [kind |-> "error", text |-> <<"Please upload an image first.">>]
GenericError(e)  == [kind |-> "error", text |-> <<"Something went wrong: ", e>>]
DetectedHeading  == Md(<<"### Detected Ingredients">>)
RecipesHeading   == Md(<<"### Recipes">>)
SimilarHeading   == Md(<<"### Recommended for You">>)

NothingRendered == [radio |-> <<>>, similar |-> FALSE]

Count(seq, e) == Cardinality({i \in 1..Len(seq) : seq[i] = e})

\* the values a run's locals hold before the block assigns them
FreshLocals ==
    /\ display = <<>> /\ events = <<>> /\ posBefore = 0 /\ readFrom = -1
    /\ payload = <<>> /\ detRaw = <<>> /\ ingredients_text = <<>> /\ compReq = <<>>
    /\ recipes_text = <<>> /\ recipe_titles = <<>> /\ fav = <<>>
    /\ rendered = NothingRendered

Init ==
    /\ variant \in {"recipe", "recip"}
    /\ stub \in BOOLEAN
    /\ uploaded_file = NoFile
    /\ pos = 0
    /\ cuisine_type = AnyChoice
    /\ allergies = <<>>
    /\ taste_pref = AnyChoice
    /\ pc = "idle"
    /\ clicked = "load"
    /\ FreshLocals
    /\ memo = {}
    /\ nz = [pc |-> "off"]
    /\ pz = [pc |-> "off"]

inputVars == <<uploaded_file, cuisine_type, allergies, taste_pref>>
\* a new run starts with nothing rendered and no local assigned
ResetLocals ==
    /\ display' = <<>> /\ events' = <<>> /\ posBefore' = 0 /\ readFrom' = -1
    /\ payload' = <<>> /\ detRaw' = <<>> /\ ingredients_text' = <<>> /\ compReq' = <<>>
    /\ recipes_text' = <<>> /\ recipe_titles' = <<>> /\ fav' = <<>>
    /\ rendered' = NothingRendered

localVars == <<display, events, posBefore, readFrom, payload, detRaw, ingredients_text,
               compReq, recipes_text, recipe_titles, fav, rendered>>
fixedVars == <<variant, stub, nz, pz>>

---------------------------------------------------------------------------
(* UI events.  Each one re-executes the script from its first line: the    *)
(* page is rebuilt, the uploaded image is displayed again, the preference  *)
(* widgets are read, and the run arrives at the main button.               *)

\* st.image(uploaded_file): the display may leave the stream anywhere
DisplayPositions(file) == 0..Len(file.bytes)

\* top of the script down to the preference widgets, for the event of `widget`
StartRun(widget, file, p) ==
    /\ ResetLocals
    /\ clicked' = widget
    /\ IF file # NoFile
       THEN pos' \in DisplayPositions(file)
       ELSE pos' = p
    /\ pc' = "button"

\* st.file_uploader: the user uploads, replaces or removes the file
Upload(f) ==
    /\ pc = "idle"
    /\ f # uploaded_file
    /\ uploaded_file' = f
    /\ StartRun("uploader", f, 0)
    /\ UNCHANGED <<cuisine_type, allergies, taste_pref, memo, fixedVars>>

\* the two select boxes and the allergy text input
ChangePreferences(c, a, t) ==
    /\ pc = "idle"
    /\ <<c, a, t>> # <<cuisine_type, allergies, taste_pref>>
    /\ cuisine_type' = c
    /\ allergies' = a
    /\ taste_pref' = t
    /\ StartRun("preferences", uploaded_file, pos)
    /\ UNCHANGED <<uploaded_file, memo, fixedVars>>

\* the main button ("Find recipes" / "Generate Recipes")
ClickMain ==
    /\ pc = "idle"
    /\ StartRun("main", uploaded_file, pos)
    /\ UNCHANGED <<inputVars, memo, fixedVars>>

\* recip.py: the nested button, clickable while the last run left it on the page
ClickSimilar ==
    /\ pc = "idle"
    /\ rendered.similar
    /\ StartRun("similar", uploaded_file, pos)
    /\ UNCHANGED <<inputVars, memo, fixedVars>>

\* recip.py: the favourite radio, while the last run left it on the page
PickFavourite ==
    /\ pc = "idle"
    /\ Len(rendered.radio) > 1
    /\ StartRun("radio", uploaded_file, pos)
    /\ UNCHANGED <<inputVars, memo, fixedVars>>

---------------------------------------------------------------------------
(* The rest of a script run.                                               *)

\* a guard that lets every press through
FileMissingNever(file) == FALSE

\* recipe.py: uploaded_file is None; recip.py: not uploaded_file
FileMissing(file) == file = NoFile

\* a button that keeps reading True after its click
ButtonPressedAlways(name) == TRUE

\* st.button(...) reads True only in the run its own click started
ButtonPressed(name) == clicked = name

\* the main button and the upload guard
MainButton ==
    /\ pc = "button"
    /\ IF ~ButtonPressed("main")
       THEN /\ pc' = "end"
            /\ UNCHANGED <<display, posBefore>>
       ELSE IF FileMissing(uploaded_file)
       THEN /\ display' = Append(display, UploadError)
            /\ pc' = "end"
            /\ UNCHANGED posBefore
       ELSE /\ posBefore' = pos
            /\ pc' = "image"
            /\ UNCHANGED display
    /\ UNCHANGED <<inputVars, pos, clicked, events, readFrom, payload, detRaw,
                   ingredients_text, compReq, recipes_text, recipe_titles, fav,
                   rendered, memo, fixedVars>>

\* a handler that reports the failure and lets the pipeline go on
RaiseAndContinue(evs, e) ==
    /\ events' = Append(evs, "except")
    /\ display' = Append(display, GenericError(e))
    /\ pc' = "compose"

\* except Exception as e: st.error(...)
Raise(evs, e) ==
    /\ events' = Append(evs, "except")
    /\ display' = Append(display, GenericError(e))
    /\ pc' = "end"

\* the stream left where the display put it
SeekSkipped(p) == p

\* recip.py: uploaded_file.seek(0)
SeekStart(p) == 0

\* recipe.py: Image.open(image_file) rewinds the stream before it reads
ImageOpenStart(p) == 0

\* recipe.py: image_to_data_url(uploaded_file); recip.py: uploaded_file.seek(0)
PrepareImage ==
    /\ pc = "image"
    /\ IF variant = "recipe"
       THEN LET start == ImageOpenStart(pos)
                evs == Append(events, "image")
            IN  /\ readFrom' = start
                /\ pos' = Len(uploaded_file.bytes)
                /\ IF uploaded_file.raster
                   THEN /\ payload' = image_to_data_url(ReadFrom(uploaded_file, start))
                        /\ events' = evs
                        /\ pc' = "detect"
                        /\ UNCHANGED display
                   ELSE /\ Raise(evs, "cannot identify image file")
                        /\ UNCHANGED payload
       ELSE /\ pos' = SeekStart(pos)
            /\ pc' = "detect"
            /\ UNCHANGED <<readFrom, payload, events, display>>
    /\ UNCHANGED <<inputVars, clicked, posBefore, detRaw, ingredients_text, compReq,
                   recipes_text, recipe_titles, fav, rendered, memo, fixedVars>>

\* the response text taken as it came
ResponseTextRaw(raw) == raw

\* completion.choices[0].message.content.strip() / response.content.strip()
ResponseText(raw) == Strip(raw)

\* detect_ingredients(data_url) / detect_ingredients_chain(uploaded_file)
Detect ==
    /\ pc = "detect"
    /\ LET reads == variant = "recip"
           req   == IF reads THEN ReadFrom(uploaded_file, pos) ELSE payload
           evs   == (IF reads THEN Append(events, "image") ELSE events)
                    \o <<"detect_call">>
       IN  /\ payload' = req
           /\ readFrom' = IF reads THEN pos ELSE readFrom
           /\ pos' = IF reads THEN Len(uploaded_file.bytes) ELSE pos
           /\ \E reply \in DetectReplies(req) :
                IF reply.ok
                THEN /\ detRaw' = reply.text
                     /\ ingredients_text' = ResponseText(reply.text)
                     /\ events' = Append(evs, "detect_ok")
                     /\ display' = display \o <<DetectedHeading, Md(ResponseText(reply.text))>>
                     /\ pc' = "compose"
                ELSE /\ Raise(evs, "model call failed")
                     /\ UNCHANGED <<detRaw, ingredients_text>>
    /\ UNCHANGED <<inputVars, clicked, posBefore, compReq, recipes_text, recipe_titles,
                   fav, rendered, memo, fixedVars>>

\* recommend_recipes(...) / recipe_chain(...)
Compose ==
    /\ pc = "compose"
    /\ LET prompt == ComposePrompt(ingredients_text, cuisine_type, allergies, taste_pref)
           evs    == Append(events, "compose_call")
       IN  /\ compReq' = <<prompt>>
           /\ \E reply \in ComposeReplies(prompt) :
                IF reply.ok
                THEN /\ recipes_text' = ResponseText(reply.text)
                     /\ events' = Append(evs, "compose_ok")
                     /\ IF variant = "recipe"
                        THEN /\ display' = display \o <<RecipesHeading, Md(ResponseText(reply.text))>>
                             /\ pc' = "end"
                        ELSE /\ display' = Append(display, RecipesHeading)
                             /\ pc' = "favourite"
                ELSE /\ Raise(evs, "model call failed")
                     /\ UNCHANGED recipes_text
    /\ UNCHANGED <<inputVars, pos, clicked, posBefore, readFrom, payload, detRaw,
                   ingredients_text, recipe_titles, fav, rendered, memo, fixedVars>>

\* st.radio(label, options): the first option until the user picks another
RadioValue(options) == IF options = <<>> THEN <<"None">> ELSE options[1]

\* recip.py: titles, favourite radio, nested button and the agent behind it
Favourite ==
    /\ pc = "favourite"
    /\ LET titles == RecipeTitles(recipes_text)
           choice == RadioValue(titles)
       IN  /\ recipe_titles' = titles
           /\ fav' = choice
           /\ rendered' = [radio |-> titles, similar |-> TRUE]
           /\ IF ButtonPressed("similar")
              THEN /\ events' = Append(events, "agent_call")
                   /\ display' = display \o <<SimilarHeading, Md(recommend_similar_recipe(choice))>>
              ELSE UNCHANGED <<events, display>>
    /\ pc' = "end"
    /\ UNCHANGED <<inputVars, pos, clicked, posBefore, readFrom, payload, detRaw,
                   ingredients_text, compReq, recipes_text, memo, fixedVars>>

\* what a main-button run was given, and what it asked for and showed
RunInput   == <<uploaded_file.name, cuisine_type, allergies, taste_pref>>
RunOutcome == <<payload, compReq, display, events>>
RunRecord  == [input |-> RunInput, outcome |-> RunOutcome]

\* the script reaches its last line; the page waits for the next event
EndRun ==
    /\ pc = "end"
    /\ pc' = "idle"
    /\ \/ memo' = memo
       \/ /\ stub
          /\ clicked = "main"
          /\ memo' = {RunRecord}
    /\ UNCHANGED <<inputVars, pos, clicked, localVars, fixedVars>>

Next ==
    \/ \E f \in Files \cup {NoFile} : Upload(f)
    \/ \E c \in Cuisines, a \in AllergyTexts, t \in Tastes : ChangePreferences(c, a, t)
    \/ ClickMain
    \/ ClickSimilar
    \/ PickFavourite
    \/ MainButton
    \/ PrepareImage
    \/ Detect
    \/ Compose
    \/ Favourite
    \/ EndRun

Spec == Init /\ [][Next]_vars

---------------------------------------------------------------------------
(* Properties of the two scripts.                                          *)

RunOver == pc \in {"end", "idle"}
ModelCalls ==
    Count(events, "detect_call") + Count(events, "compose_call") + Count(events, "agent_call")

\* t is raw without its leading and trailing whitespace
IsTrimOf(t, raw) ==
    \E i \in 0..Len(raw), j \in 0..Len(raw) :
        /\ i + Len(t) + j = Len(raw)
        /\ t = SubSeq(raw, i + 1, i + Len(t))
        /\ \A k \in 1..i : IsSpace(raw[k])
        /\ \A k \in (Len(raw) - j + 1)..Len(raw) : IsSpace(raw[k])
        /\ t # <<>> => ~IsSpace(t[1]) /\ ~IsSpace(t[Len(t)])

\* the literal pieces of the variant's prompt, in order
PromptLabels ==
    IF variant = "recipe"
    THEN <<RecipeHead, RecipeCuisineLabel, RecipeAllergyLabel, RecipeTasteLabel, RecipeTail>>
    ELSE <<RecipHead, RecipCuisineLabel, RecipAllergyLabel, RecipTasteLabel, RecipTail>>

LabelsOnce(prompt) == \A k \in 1..5 : Count(prompt, PromptLabels[k]) = 1
LabelAt(prompt, k) == CHOOSE i \in 1..Len(prompt) : prompt[i] = PromptLabels[k]
\* the text standing between the k-th literal piece and the next one
Field(prompt, k) == SubSeq(prompt, LabelAt(prompt, k) + 1, LabelAt(prompt, k + 1) - 1)

\* C1: in a run, the composition call comes only after the detection call has
\* returned, and the ingredients it is given are the detection response with
\* its surrounding whitespace removed.
C1_CompositionAfterDetection ==
    /\ \A i \in 1..Len(events) :
         events[i] = "compose_call" =>
            /\ i > 1
            /\ events[i - 1] = "detect_ok"
            /\ \E j \in 1..(i - 1) : events[j] = "detect_call"
    /\ compReq # <<>> =>
         /\ Count(events, "compose_call") = 1
         /\ LabelsOnce(compReq[1])
         /\ Field(compReq[1], 1) = ingredients_text
         /\ IsTrimOf(Field(compReq[1], 1), detRaw)
    /\ Count(events, "compose_call") = 1 => compReq # <<>>

C1_Witness ==
    /\ pc = "end"
    /\ clicked = "main"
    /\ Count(events, "compose_ok") = 1
    /\ detRaw # ingredients_text
    /\ ingredients_text # <<>>

ErrorsShown == Cardinality({i \in 1..Len(display) : display[i].kind = "error"})

\* C2: a failed decode or model call is caught once, one error message is
\* shown, no step is attempted twice and no later pipeline step runs.
C2_FailureCaughtOnce ==
    /\ \A e \in {"image", "detect_call", "compose_call", "except"} : Count(events, e) <= 1
    /\ \A i \in 1..Len(events) :
         /\ events[i] = "detect_call" =>
              i < Len(events) /\ events[i + 1] \in {"detect_ok", "except"}
         /\ events[i] = "compose_call" =>
              i < Len(events) /\ events[i + 1] \in {"compose_ok", "except"}
         /\ events[i] = "image" =>
              IF i = Len(events) THEN pc = "detect"
              ELSE events[i + 1] \in {"detect_call", "except"}
    /\ Count(events, "except") = 1 =>
         LET n == Len(events)
         IN  /\ events[n] = "except"
             /\ RunOver
             /\ n > 1
             /\ events[n - 1] \in {"image", "detect_call", "compose_call"}
             /\ events[n - 1] = "image" => ModelCalls = 0
             /\ events[n - 1] = "detect_call" => Count(events, "compose_call") = 0
             /\ ErrorsShown = 1
             /\ display[Len(display)].kind = "error"
             /\ rendered = NothingRendered
    /\ Count(events, "except") = 0 /\ uploaded_file # NoFile => ErrorsShown = 0

C2_Witness ==
    /\ pc = "end"
    /\ events = <<"image", "detect_call", "except">>
    /\ ErrorsShown = 1

\* C3 as stated: every main-button press performs one normalization pass
\* and at most two model calls.
C3_OnePassEveryPress ==
    (RunOver /\ clicked = "main") =>
        /\ Count(events, "image") = 1
        /\ ModelCalls <= 2

\* C3 amended: a main-button press with a file uploaded performs exactly one
\* read/normalization pass, no run performs more than one, and no run makes
\* more than two model calls (detection, then composition).
C3_OnePassWithFile ==
    /\ Count(events, "image") <= 1
    /\ ModelCalls <= 2
    /\ Count(events, "detect_call") <= 1
    /\ Count(events, "compose_call") <= 1
    /\ Count(events, "agent_call") = 0
    /\ (RunOver /\ clicked = "main" /\ uploaded_file # NoFile) => Count(events, "image") = 1
    /\ clicked # "main" => events = <<>>

C3_Witness ==
    /\ pc = "end"
    /\ clicked = "main"
    /\ Count(events, "image") = 1
    /\ ModelCalls = 2

\* the request payload built from the whole file
FullPayload ==
    IF variant = "recipe"
    THEN IF uploaded_file.raster THEN image_to_data_url(uploaded_file.bytes) ELSE <<>>
    ELSE uploaded_file.bytes

\* C5: whenever the file is read to build the payload, the read starts at
\* position 0 and the payload is built from the complete content, wherever
\* the display or an earlier run left the stream.
C5_ReadFromStart ==
    readFrom # -1 =>
        /\ readFrom = 0
        /\ payload = FullPayload

C5_Witness ==
    /\ variant = "recip"
    /\ readFrom = 0
    /\ posBefore = Len(uploaded_file.bytes)
    /\ posBefore > 0
    /\ payload = uploaded_file.bytes

\* C6: with a deterministic model, a main-button run with the same file and
\* preferences as a remembered earlier run issues the same requests and
\* shows the same results, whatever ran in between.
C6_RunsIndependent ==
    (stub /\ RunOver /\ clicked = "main") =>
        \A m \in memo : m.input = RunInput => m.outcome = RunOutcome

C6_Witness ==
    /\ stub
    /\ pc = "end"
    /\ clicked = "main"
    /\ posBefore > 0
    /\ Count(events, "compose_ok") = 1
    /\ \E m \in memo : m.input = RunInput /\ m.outcome = RunOutcome

\* C7: the composition prompt holds the detected-ingredients text and the
\* three preference fields verbatim, each standing whole between the
\* template's literal pieces.
C7_FieldsVerbatim ==
    compReq # <<>> =>
        LET prompt == compReq[1]
        IN  /\ LabelsOnce(prompt)
            /\ prompt[1] = PromptLabels[1]
            /\ prompt[Len(prompt)] = PromptLabels[5]
            /\ Field(prompt, 1) = ingredients_text
            /\ Field(prompt, 2) = cuisine_type
            /\ Field(prompt, 3) = allergies
            /\ Field(prompt, 4) = taste_pref

C7_Witness ==
    /\ compReq # <<>>
    /\ variant = "recipe"
    /\ allergies = <<" ", "{", "x", "}", "\n">>
    /\ cuisine_type = AnyChoice
    /\ Field(compReq[1], 3) = allergies

\* C8: once the run started by "Get Similar Recommendations" is over, the
\* recommendation for the favourite is on the page.
C8_SimilarShowsRecommendation ==
    (variant = "recip" /\ RunOver /\ clicked = "similar") =>
        \E i \in 1..Len(display) : display[i] = SimilarHeading

\* C9: a main-button press with no file uploaded reads no image, calls no
\* model, and shows the upload error and nothing else.
C9_NoFileNoWork ==
    (clicked = "main" /\ uploaded_file = NoFile) =>
        /\ events = <<>>
        /\ readFrom = -1
        /\ payload = <<>>
        /\ compReq = <<>>
        /\ rendered = NothingRendered
        /\ pc \notin {"image", "detect", "compose", "favourite"}
        /\ RunOver => display = <<UploadError>>

C9_Witness ==
    /\ pc = "end"
    /\ clicked = "main"
    /\ uploaded_file = NoFile
    /\ allergies # <<>>
    /\ display = <<UploadError>>

---------------------------------------------------------------------------
(* The title parser of recip.py taken alone, over many model outputs.      *)

MaxChunks == 5

\* the page with nothing uploaded and no run in progress
MainAtRest ==
    /\ variant = "recip"
    /\ stub = FALSE
    /\ uploaded_file = NoFile
    /\ pos = 0
    /\ cuisine_type = AnyChoice
    /\ allergies = <<>>
    /\ taste_pref = AnyChoice
    /\ pc = "idle"
    /\ clicked = "load"
    /\ FreshLocals
    /\ memo = {}

RECURSIVE Flatten(_)
Flatten(seqs) == IF seqs = <<>> THEN <<>> ELSE Head(seqs) \o Flatten(Tail(seqs))

\* any output: up to MaxChunks pieces: headed lines, bare markers, text, blanks
Chunks == {Marker \o <<"a">>, Marker, <<"b", "\n">>, <<" ">>, <<"#">>}
AnyOutputs ==
    {Flatten(cs) : cs \in UNION {[1..n -> Chunks] : n \in 0..MaxChunks}}

\* recipe names and section bodies of the output convention; "### " occurs
\* in a well-formed output only as the marker of a section heading
RecipeNames == {<<"P">>, <<"P", " ", "Q">>, <<"#", "P">>, <<"P", " ">>}
SectionBodies ==
    {<<>>, <<"-", "x", "\n">>, <<"#", "t", "\n", "1", ".", "s">>, <<"\n", "-", "x", "#", "#">>}
SectionParts == RecipeNames \X SectionBodies

HeadingLine(n, part) == <<n, ".", " ">> \o part[1]

WellFormedText(p1, p2, p3, lead, tail) ==
    lead \o Section("1", p1[1], p1[2]) \o Section("2", p2[1], p2[2])
         \o Section("3", p3[1], p3[2]) \o tail

ParseInputs ==
    {[pc |-> "ready", text |-> t, wellformed |-> FALSE, heads |-> <<>>,
      sections |-> <<>>, titles |-> <<>>] : t \in AnyOutputs}
    \cup
    {[pc |-> "ready", text |-> WellFormedText(p1, p2, p3, lead, tail), wellformed |-> TRUE,
      heads |-> <<HeadingLine("1", p1), HeadingLine("2", p2), HeadingLine("3", p3)>>,
      sections |-> <<>>, titles |-> <<>>] :
        p1 \in SectionParts, p2 \in SectionParts, p3 \in SectionParts,
        lead \in {<<>>, <<"\n">>}, tail \in {<<>>, Note \o <<"\n">>}}

InitParse ==
    /\ MainAtRest
    /\ nz = [pc |-> "off"]
    /\ pz \in ParseInputs

\* recipe_chain's return value split into sections and titles
ParseTitles ==
    /\ pz.pc = "ready"
    /\ LET text == ResponseText(pz.text)
       IN  pz' = [pz EXCEPT !.pc = "done",
                            !.sections = RecipeList(text),
                            !.titles = RecipeTitles(text)]
    /\ UNCHANGED <<mainVars, nz>>

NextParse == ParseTitles

SpecParse == InitParse /\ [][NextParse]_vars

\* C10: a well-formed output splits into exactly three non-empty sections whose
\* first lines, in order, are the titles offered, each being its section's
\* heading; no output makes the widget offer more than three titles.
C10_ThreeTitles ==
    pz.pc = "done" =>
        /\ Len(pz.titles) <= 3
        /\ pz.wellformed =>
             /\ Len(pz.sections) = 3
             /\ Len(pz.titles) = 3
             /\ \A i \in 1..3 :
                  /\ pz.sections[i] # <<>>
                  /\ pz.titles[i] = FirstLine(pz.sections[i])
                  /\ Strip(pz.titles[i]) = Strip(pz.heads[i])

C10_Witness ==
    /\ pz.pc = "done"
    /\ pz.wellformed
    /\ pz.titles = <<<<"1", ".", " ", "#", "P">>, <<"2", ".", " ", "P", " ", "Q">>,
                     <<"3", ".", " ", "P">>>>
    /\ Len(pz.text) > Len(ResponseText(pz.text))

---------------------------------------------------------------------------
(* The size-bounded normalizer (the variant whose file is not among the    *)
(* sources), from its contract:                                            *)
(*   normalize(rawImage, maxDimension, initialQuality, byteCeiling,        *)
(*             minQuality)                                                 *)
(* encode at initialQuality; while the output exceeds byteCeiling and the  *)
(* quality is above minQuality, lower the quality by a fixed step and      *)
(* encode again; return whatever the last encoding produced.               *)

MaxQuality == 5
MaxStep    == 2
MaxBytes   == 3

\* the size of one encoding: any size, whatever the quality
EncodedSizes == 0..MaxBytes

NormalizeInputs ==
    {[pc |-> "start", raster |-> r, initialQuality |-> q0, minQuality |-> qm,
      step |-> st, byteCeiling |-> c, quality |-> q0, size |-> 0, iterations |-> 0] :
        r \in BOOLEAN, q0 \in 1..MaxQuality, qm \in 1..MaxQuality,
        st \in 1..MaxStep, c \in 0..(MaxBytes - 1)}

InitNormalize ==
    /\ MainAtRest
    /\ pz = [pc |-> "off"]
    /\ nz \in {n \in NormalizeInputs : n.minQuality <= n.initialQuality}

\* an exit that refuses an output still over the ceiling
NormalizeExitStrict(size, byteCeiling) == IF size > byteCeiling THEN "error" ELSE "done"

\* the loop's exit: the last encoding is returned as it is
NormalizeExit(size, byteCeiling) == "done"

\* the loop goes on while the output is oversized and the floor is not reached
NormalizeContinues(n) == n.size > n.byteCeiling /\ n.quality > n.minQuality

\* decode, convert, resize and encode at initialQuality
NormalizeOpen ==
    /\ nz.pc = "start"
    /\ IF nz.raster
       THEN \E sz \in EncodedSizes : nz' = [nz EXCEPT !.pc = "loop", !.size = sz]
       ELSE nz' = [nz EXCEPT !.pc = "error"]
    /\ UNCHANGED <<mainVars, pz>>

\* one pass of the loop: lower the quality by the step and encode again
NormalizeReduce ==
    /\ nz.pc = "loop"
    /\ NormalizeContinues(nz)
    /\ \E sz \in EncodedSizes :
         nz' = [nz EXCEPT !.quality = nz.quality - nz.step,
                          !.size = sz,
                          !.iterations = nz.iterations + 1]
    /\ UNCHANGED <<mainVars, pz>>

\* base64-encode the last encoding and return the data URL
NormalizeReturn ==
    /\ nz.pc = "loop"
    /\ ~NormalizeContinues(nz)
    /\ nz' = [nz EXCEPT !.pc = NormalizeExit(nz.size, nz.byteCeiling)]
    /\ UNCHANGED <<mainVars, pz>>

NextNormalize == NormalizeOpen \/ NormalizeReduce \/ NormalizeReturn

SpecNormalize == InitNormalize /\ [][NextNormalize]_vars

\* C4 (configurations with minQuality <= initialQuality and step >= 1): for a
\* valid raster image normalize returns an output that fits the byte
\* ceiling or whose quality has reached the floor; the quality only goes down,
\* by the fixed step, the loop makes at most
\* (initialQuality - minQuality) / step + 1 passes, and an output still
\* oversized at the floor is returned, never refused.
C4_NormalizeBounded ==
    /\ nz.pc \in {"loop", "done"} =>
         /\ nz.quality = nz.initialQuality - nz.iterations * nz.step
         /\ nz.iterations <= (nz.initialQuality - nz.minQuality) \div nz.step + 1
         /\ nz.quality > nz.minQuality - nz.step
    /\ nz.pc = "done" => nz.size <= nz.byteCeiling \/ nz.quality <= nz.minQuality
    /\ nz.pc = "error" => ~nz.raster
    /\ (nz.raster /\ nz.pc = "loop") => ENABLED NextNormalize

C4_Witness ==
    /\ nz.pc = "done"
    /\ nz.size > nz.byteCeiling
    /\ nz.quality < nz.minQuality
    /\ nz.iterations = (nz.initialQuality - nz.minQuality) \div nz.step + 1

=============================================================================
